---- MODULE Spec2Model ----
\* A model of the xk6-mcp client facade (src/mcp.go): the three client
\* constructors with their connect step, and the operations of Client
\* (single remote calls and the cursor-following ListAll* aggregations).
EXTENDS Integers, Sequences, FiniteSets, TLC

\* ---------------------------------------------------------------- bounds

\* most page requests one ListAll* call is answered with a further cursor for
MaxPages == 3
\* most list entries (nil ones included) the server sends during one call
MaxItems == 2
\* longest time (seconds) a connect attempt without deadline is followed
MaxClock == 32
\* most HTTP requests followed on one streaming client
MaxWire == 2

\* context.WithTimeout(context.Background(), 30*time.Second)
ConnectTimeout == 30

\* ---------------------------------------------------------------- values

\* a nil pointer in a page's item slice
NULL == "nil"
Items == {"a", "b"}
Entries == Items \cup {NULL}

\* the empty cursor: "field omitted" in a request, "no more pages" in a result
NoCursor == ""
Cursors == {"c1", "c2"}

\* error values a session call returns; NoErr is Go's nil error
NoErr == "nil"
ErrRemote == "remote"
ErrClosed == "closed"
ErrCanceled == "canceled"
ErrDeadline == "deadline exceeded"

\* caller threads; slot 1 is the only one used by a sequential caller
Slots == {1, 2}

SeqsUpTo(S, n) == UNION {[1..k -> S] : k \in 0..n}

\* ---------------------------------------------------------------- state

VARIABLES
    threads,          \* how many caller threads may be inside an operation at once
    srv,              \* the server followed: its page and item limits, whether
                      \* each invocation's whole request/response history is kept,
                      \* and whether failures of earlier operations are remembered
    ctxDone,          \* Client.ctx has been cancelled
    transportUp,      \* the session's transport is still connected
    pc,               \* per slot: where the invocation stands
    op,               \* per slot: the Client method invoked
    meta,             \* per slot: r.Meta
    cursor,           \* per slot: the local cursor (ListAll*), the caller's cursor otherwise
    acc,              \* per slot: allTools / allResources / allPrompts
    err,              \* per slot: the local err
    reqs,             \* per slot: the session calls issued by this invocation
    resps,            \* per slot: what those calls returned
    obs,              \* per slot: the observations this invocation pushed to c.metrics
    ret,              \* per slot: what the method returned to its caller
    cancelledInFlight, \* per slot: Client.ctx was cancelled while this invocation was running
    failedBefore      \* an earlier operation on this facade has returned a failure

VARIABLES
    host,             \* what the VU supplies: State(), its TLSConfig and its Dialer
    childEnv,         \* the environment the subprocess was started with
    kind,             \* the constructor called: "stdio", "sse" or "streamable"
    cfg,              \* the ClientConfig argument and whether it decodes
    cpc,              \* where the constructor stands
    httpClient,       \* the *http.Client of a streaming transport
    connCtx,          \* the context handed to client.Connect
    clock,            \* seconds since the connect attempt began
    attempts,         \* calls of client.Connect
    launched,         \* subprocesses started
    sessions,         \* sessions the connects have produced
    connected,        \* the session held by the Client that connect returns
    facades,          \* the Client objects the constructor has returned
    thrown,           \* the error the constructor has thrown
    wire              \* the HTTP requests sent through httpClient

conVars == <<host, childEnv, kind, cfg, cpc, httpClient, connCtx, clock, attempts, launched, sessions,
             connected, facades, thrown, wire>>

opVars == <<threads, srv, ctxDone, transportUp, pc, op, meta, cursor, acc, err, reqs,
            resps, obs, ret, cancelledInFlight, failedBefore>>

\* ------------------------------------------------------- operation table

ListAllOps == {"ListAllTools", "ListAllResources", "ListAllPrompts"}
PageOps == {"ListTools", "ListResources", "ListPrompts"}
PlainOps == {"CallTool", "ReadResource", "GetPrompt"}
SingleOps == {"Ping"} \cup PageOps \cup PlainOps
Ops == SingleOps \cup ListAllOps

\* the session method each Client method calls
Method(o) ==
    CASE o = "Ping" -> "Ping"
      [] o \in {"ListTools", "ListAllTools"} -> "ListTools"
      [] o = "CallTool" -> "CallTool"
      [] o \in {"ListResources", "ListAllResources"} -> "ListResources"
      [] o = "ReadResource" -> "ReadResource"
      [] o \in {"ListPrompts", "ListAllPrompts"} -> "ListPrompts"
      [] o = "GetPrompt" -> "GetPrompt"

AllBackground(o) == "background"

\* the context each Client method hands to the session: c.ctx in CallTool,
\* context.Background() everywhere else
ContextOf(o) == IF o = "CallTool" THEN "facade" ELSE "background"

\* the methods that call c.metrics.Push
Metered(o) == o \notin {"Ping", "ListTools"}

\* the operation name each method passes to c.metrics.Push
MetricName(o) == o

\* the message each ListAll* method wraps a page failure in
WrapMsg(o) ==
    CASE o = "ListAllTools" -> "failed to list tools"
      [] o = "ListAllResources" -> "failed to list resources"
      [] o = "ListAllPrompts" -> "failed to list prompts"

\* ------------------------------------------------------------- helpers

NoError == [wrap |-> "", cause |-> NoErr]
NoRet == [present |-> FALSE, items |-> <<>>, next |-> NoCursor, ok |-> FALSE,
          err |-> NoError]

\* if r.Meta == nil { r.Meta = mcp.Meta{} }
DefaultMeta(m) == IF m = "nilmeta" THEN "emptymeta" ELSE m

MetaOnFirstPageOnly(m, c) ==
    [meta |-> IF c = NoCursor THEN m ELSE "nilmeta", cursor |-> c]

NeverSetCursor(m, c) == [meta |-> m, cursor |-> NoCursor]

\* params := &mcp.List...Params{Meta: r.Meta}; if cursor != "" { params.Cursor = cursor }
PageParams(m, c) == [meta |-> m, cursor |-> IF c # NoCursor THEN c ELSE NoCursor]

RECURSIVE AppendEvery(_, _)
AppendEvery(all, items) ==
    IF items = <<>> THEN all
    ELSE AppendEvery(Append(all, Head(items)), Tail(items))

\* for _, t := range result.Tools { if t != nil { allTools = append(allTools, *t) } }
RECURSIVE AppendNonNil(_, _)
AppendNonNil(all, items) ==
    IF items = <<>> THEN all
    ELSE AppendNonNil(IF Head(items) # NULL THEN Append(all, Head(items)) ELSE all,
                      Tail(items))

PushedAsSuccess(o, e) == <<[name |-> MetricName(o), failed |-> FALSE]>>

PushedUnlessFailed(o, e) ==
    IF e # NoErr THEN <<>> ELSE <<[name |-> MetricName(o), failed |-> FALSE]>>

\* c.metrics.Push(c.ctx, "<name>", time.Since(start), err): the observations one
\* such call submits
Pushed(o, e) == <<[name |-> MetricName(o), failed |-> e # NoErr]>>

ListAllResultPartial(o, all, e) ==
    [present |-> e = NoErr, items |-> all, next |-> NoCursor, ok |-> FALSE,
     err |-> IF e # NoErr THEN [wrap |-> WrapMsg(o), cause |-> e] ELSE NoError]

\* if err != nil { return nil, fmt.Errorf("failed to list ...: %w", err) }
\* return &ListAll...Result{...: all...}, nil
ListAllResult(o, all, e) ==
    IF e # NoErr
    THEN [present |-> FALSE, items |-> <<>>, next |-> NoCursor, ok |-> FALSE,
          err |-> [wrap |-> WrapMsg(o), cause |-> e]]
    ELSE [present |-> TRUE, items |-> all, next |-> NoCursor, ok |-> FALSE,
          err |-> NoError]

\* return result, err   (the session's result and error, unchanged)
SingleResult(r) ==
    [present |-> r.err = NoErr, items |-> r.items, next |-> r.next, ok |-> FALSE,
     err |-> [wrap |-> "", cause |-> r.err]]

PingAlwaysTrue(e) == TRUE

\* return err == nil
PingResult(e) == e = NoErr

\* ------------------------------------------------------------- session

Fail(e) == [err |-> e, items |-> <<>>, next |-> NoCursor]
Page(items, next) == [err |-> NoErr, items |-> items, next |-> next]

RECURSIVE Served(_)
Served(rs) == IF rs = <<>> THEN 0 ELSE Len(Head(rs).items) + Served(Tail(rs))

\* the history h with x added; only x when no history is kept
Logged(h, x) == IF srv.log THEN Append(h, x) ELSE <<x>>

\* how many more entries the server may send invocation s
Budget(s) ==
    IF srv.log THEN srv.items - Served(resps[s]) ELSE srv.items - Len(acc[s])

\* whether the server has sent invocation s all the cursors it will
PagesExhausted(s) == srv.capped /\ Len(reqs[s]) >= srv.pages

\* no context a Client method hands to the session carries a deadline:
\* context.Background() has none and c.ctx is the VU's context
HasDeadline(c) == c \notin {"background", "facade"}

\* what a session call issued as request q by invocation s may return: the
\* transport's failure once it is severed, the context's error once the context
\* the call was issued under is cancelled, and otherwise whatever the server
\* answers
Replies(s, q) ==
    IF ~transportUp THEN {Fail(ErrClosed)}
    ELSE IF q.ctx = "facade" /\ ctxDone THEN {Fail(ErrCanceled)}
    ELSE (IF HasDeadline(q.ctx) THEN {Fail(ErrDeadline)} ELSE {}) \cup
         {Fail(ErrRemote)} \cup
         CASE q.method = "Ping" -> {Page(<<>>, NoCursor)}
           [] q.method \in {"CallTool", "ReadResource", "GetPrompt"} ->
                {Page(<<i>>, NoCursor) : i \in Items}
           [] OTHER ->
                {Page(is, n) :
                    is \in SeqsUpTo(Entries, Budget(s)),
                    n \in {NoCursor} \cup
                          IF op[s] \in ListAllOps /\ PagesExhausted(s)
                          THEN {} ELSE Cursors}

\* ------------------------------------------------------------- actions

Busy == {s \in Slots : pc[s] # "idle"}
Waiting == {s \in Slots : pc[s] = "wait"}
LastReq(s) == reqs[s][Len(reqs[s])]

\* a caller thread enters Client method o with metadata m and cursor c
Invoke(s, o, m, c) ==
    /\ pc[s] = "idle"
    /\ Cardinality(Busy) < threads
    /\ \A t \in Slots : t < s => pc[t] # "idle"
    /\ op' = [op EXCEPT ![s] = o]
    /\ meta' = [meta EXCEPT ![s] = IF o \in ListAllOps THEN DefaultMeta(m) ELSE m]
    /\ cursor' = [cursor EXCEPT ![s] = IF o \in PageOps THEN c ELSE NoCursor]
    /\ pc' = [pc EXCEPT ![s] = "call"]
    /\ UNCHANGED <<threads, srv, ctxDone, transportUp, acc, err, reqs, resps, obs, ret,
                   cancelledInFlight, failedBefore>>

\* the method calls c.session.<Method>(ctx, params)
IssueCall(s) ==
    /\ pc[s] = "call"
    /\ reqs' = [reqs EXCEPT ![s] =
                  Logged(@, [method |-> Method(op[s]), ctx |-> ContextOf(op[s]),
                             meta |-> PageParams(meta[s], cursor[s]).meta,
                             cursor |-> PageParams(meta[s], cursor[s]).cursor])]
    /\ pc' = [pc EXCEPT ![s] = "wait"]
    /\ UNCHANGED <<threads, srv, ctxDone, transportUp, op, meta, cursor, acc, err, resps,
                   obs, ret, cancelledInFlight, failedBefore>>

ReplySingleRetry(s, r) ==
    /\ pc[s] = "wait"
    /\ op[s] \in SingleOps
    /\ resps' = [resps EXCEPT ![s] = Logged(@, r)]
    /\ err' = [err EXCEPT ![s] = r.err]
    /\ IF r.err # NoErr /\ Len(reqs[s]) < 2
       THEN /\ pc' = [pc EXCEPT ![s] = "call"]
            /\ ret' = ret
       ELSE IF Metered(op[s])
       THEN /\ pc' = [pc EXCEPT ![s] = "push"]
            /\ ret' = ret
       ELSE /\ pc' = [pc EXCEPT ![s] = "returned"]
            /\ ret' = [ret EXCEPT ![s] =
                         IF op[s] = "Ping"
                         THEN [NoRet EXCEPT !.ok = PingResult(r.err)]
                         ELSE SingleResult(r)]
    /\ UNCHANGED <<threads, srv, ctxDone, transportUp, op, meta, cursor, acc, reqs, obs,
                   cancelledInFlight, failedBefore>>

\* a single-call method's session call returns r
ReplySingle(s, r) ==
    /\ pc[s] = "wait"
    /\ op[s] \in SingleOps
    /\ resps' = [resps EXCEPT ![s] = Logged(@, r)]
    /\ err' = [err EXCEPT ![s] = r.err]
    /\ IF Metered(op[s])
       THEN /\ pc' = [pc EXCEPT ![s] = "push"]
            /\ ret' = ret
       ELSE /\ pc' = [pc EXCEPT ![s] = "returned"]
            /\ ret' = [ret EXCEPT ![s] =
                         IF op[s] = "Ping"
                         THEN [NoRet EXCEPT !.ok = PingResult(r.err)]
                         ELSE SingleResult(r)]
    /\ UNCHANGED <<threads, srv, ctxDone, transportUp, op, meta, cursor, acc, reqs, obs,
                   cancelledInFlight, failedBefore>>

ReplyPageNoBreak(s, r) ==
    /\ pc[s] = "wait"
    /\ op[s] \in ListAllOps
    /\ resps' = [resps EXCEPT ![s] = Logged(@, r)]
    /\ err' = [err EXCEPT ![s] = r.err]
    /\ IF r.err # NoErr
       THEN /\ pc' = [pc EXCEPT ![s] = "push"]
            /\ UNCHANGED <<acc, cursor>>
       ELSE /\ acc' = [acc EXCEPT ![s] = AppendNonNil(@, r.items)]
            /\ cursor' = [cursor EXCEPT ![s] = r.next]
            /\ pc' = [pc EXCEPT ![s] = "call"]
    /\ UNCHANGED <<threads, srv, ctxDone, transportUp, op, meta, reqs, obs, ret,
                   cancelledInFlight, failedBefore>>

ReplyPageShared(s, r) ==
    /\ pc[s] = "wait"
    /\ op[s] \in ListAllOps
    /\ resps' = [resps EXCEPT ![s] = Logged(@, r)]
    /\ err' = [err EXCEPT ![s] = r.err]
    /\ IF r.err # NoErr
       THEN /\ pc' = [pc EXCEPT ![s] = "push"]
            /\ UNCHANGED <<acc, cursor>>
       ELSE /\ acc' = [t \in Slots |->
                        IF op[t] \in ListAllOps
                        THEN AppendNonNil(acc[t], r.items) ELSE acc[t]]
            /\ IF r.next = NoCursor
               THEN /\ pc' = [pc EXCEPT ![s] = "push"]
                    /\ UNCHANGED cursor
               ELSE /\ cursor' = [t \in Slots |->
                                   IF op[t] \in ListAllOps THEN r.next ELSE cursor[t]]
                    /\ pc' = [pc EXCEPT ![s] = "call"]
    /\ UNCHANGED <<threads, srv, ctxDone, transportUp, op, meta, reqs, obs, ret,
                   cancelledInFlight, failedBefore>>

\* one turn of a ListAll* loop: the page call returns r
ReplyPage(s, r) ==
    /\ pc[s] = "wait"
    /\ op[s] \in ListAllOps
    /\ resps' = [resps EXCEPT ![s] = Logged(@, r)]
    /\ err' = [err EXCEPT ![s] = r.err]
    /\ IF r.err # NoErr
       THEN /\ pc' = [pc EXCEPT ![s] = "push"]
            /\ UNCHANGED <<acc, cursor>>
       ELSE /\ acc' = [acc EXCEPT ![s] = AppendNonNil(@, r.items)]
            /\ IF r.next = NoCursor
               THEN /\ pc' = [pc EXCEPT ![s] = "push"]
                    /\ UNCHANGED cursor
               ELSE /\ cursor' = [cursor EXCEPT ![s] = r.next]
                    /\ pc' = [pc EXCEPT ![s] = "call"]
    /\ UNCHANGED <<threads, srv, ctxDone, transportUp, op, meta, reqs, obs, ret,
                   cancelledInFlight, failedBefore>>

\* c.metrics.Push(...) and the return statement after it
Push(s) ==
    /\ pc[s] = "push"
    /\ obs' = [obs EXCEPT ![s] = @ \o Pushed(op[s], err[s])]
    /\ ret' = [ret EXCEPT ![s] =
                 IF op[s] \in ListAllOps
                 THEN ListAllResult(op[s], acc[s], err[s])
                 ELSE SingleResult(resps[s][Len(resps[s])])]
    /\ pc' = [pc EXCEPT ![s] = "returned"]
    /\ UNCHANGED <<threads, srv, ctxDone, transportUp, op, meta, cursor, acc, err, reqs,
                   resps, cancelledInFlight, failedBefore>>

\* whether what operation o returned tells its caller of a failure
Failed(o, v) == IF o = "Ping" THEN ~v.ok ELSE v.err # NoError

\* the caller takes the returned value; the method's locals are gone
Return(s) ==
    /\ pc[s] = "returned"
    /\ pc' = [pc EXCEPT ![s] = "idle"]
    /\ op' = [op EXCEPT ![s] = "none"]
    /\ meta' = [meta EXCEPT ![s] = "nilmeta"]
    /\ cursor' = [cursor EXCEPT ![s] = NoCursor]
    /\ acc' = [acc EXCEPT ![s] = <<>>]
    /\ err' = [err EXCEPT ![s] = NoErr]
    /\ reqs' = [reqs EXCEPT ![s] = <<>>]
    /\ resps' = [resps EXCEPT ![s] = <<>>]
    /\ obs' = [obs EXCEPT ![s] = <<>>]
    /\ ret' = [ret EXCEPT ![s] = NoRet]
    /\ cancelledInFlight' = [cancelledInFlight EXCEPT ![s] = FALSE]
    /\ failedBefore' = (failedBefore \/ (srv.remember /\ Failed(op[s], ret[s])))
    /\ UNCHANGED <<threads, srv, ctxDone, transportUp>>

\* the embedding caller cancels the context bound to the facade
Cancel ==
    /\ ~ctxDone
    /\ ctxDone' = TRUE
    /\ cancelledInFlight' = [s \in Slots |-> pc[s] \in {"call", "wait"}]
    /\ UNCHANGED <<threads, srv, transportUp, pc, op, meta, cursor, acc, err, reqs, resps,
                   obs, ret, failedBefore>>

\* the transport under the session is severed
Sever ==
    /\ transportUp
    /\ transportUp' = FALSE
    /\ UNCHANGED <<threads, srv, ctxDone, pc, op, meta, cursor, acc, err, reqs, resps, obs,
                   ret, cancelledInFlight, failedBefore>>

\* a server that ends every cursor chain, followed with full history
Finite ==
    [capped |-> TRUE, pages |-> MaxPages, items |-> MaxItems, log |-> TRUE,
     remember |-> FALSE]

\* a server of one-page lists, followed with full history and with the memory
\* of earlier failures
Watched ==
    [capped |-> TRUE, pages |-> 1, items |-> 1, log |-> TRUE, remember |-> TRUE]

\* a server that may answer every page with a further cursor, followed
\* without history
Endless ==
    [capped |-> FALSE, pages |-> 0, items |-> 1, log |-> FALSE, remember |-> FALSE]

\* no operation has been invoked on the facade
Idle ==
    /\ ctxDone = FALSE
    /\ transportUp = TRUE
    /\ pc = [s \in Slots |-> "idle"]
    /\ op = [s \in Slots |-> "none"]
    /\ meta = [s \in Slots |-> "nilmeta"]
    /\ cursor = [s \in Slots |-> NoCursor]
    /\ acc = [s \in Slots |-> <<>>]
    /\ err = [s \in Slots |-> NoErr]
    /\ reqs = [s \in Slots |-> <<>>]
    /\ resps = [s \in Slots |-> <<>>]
    /\ obs = [s \in Slots |-> <<>>]
    /\ ret = [s \in Slots |-> NoRet]
    /\ cancelledInFlight = [s \in Slots |-> FALSE]
    /\ failedBefore = FALSE

OpInit ==
    /\ threads = 1
    /\ srv = Finite
    /\ Idle

\* ------------------------------------------------------- construction

NoThrow == [msg |-> "", cause |-> ""]
NoClient == [transport |-> "none", source |-> "", tls |-> "none", dial |-> "default"]

\* a Go runtime panic: a nil pointer dereferenced in function f
NilDeref(f) == [msg |-> "nil pointer dereference", cause |-> f]

\* what a VU may supply: no State() at all (the init context), or a State()
\* with or without a TLSConfig and with or without a Dialer
Hosts ==
    {h \in [state : BOOLEAN, tls : BOOLEAN, dialer : BOOLEAN] :
        ~h.state => (~h.tls /\ ~h.dialer)}

\* if m.vu.State() != nil && m.vu.State().TLSConfig != nil { tlsConfig =
\* ...Clone(); tlsConfig.NextProtos = []string{"http/1.1"} }
TLSClientConfig(h) == IF h.state /\ h.tls THEN "clone http/1.1" ELSE "none"

\* if m.vu.State().Dialer != nil { transport.DialContext = ...Dialer.DialContext }:
\* State() is dereferenced whether it is nil or not
DialContext(h) ==
    IF ~h.state THEN [faults |-> TRUE, dial |-> "default"]
    ELSE [faults |-> FALSE, dial |-> IF h.dialer THEN "k6" ELSE "default"]
NoContext == [parent |-> "none", timed |-> FALSE, deadline |-> 0]

\* the isSSE argument each constructor passes to connect
IsSSE(k) == k = "sse"

DeadlineAlways(isSSE) ==
    [parent |-> "background", timed |-> TRUE, deadline |-> ConnectTimeout]

\* if isSSE { ctx = context.Background() } else { ctx, cancel =
\* context.WithTimeout(context.Background(), 30*time.Second) }
ConnectContext(isSSE) ==
    IF isSSE
    THEN [parent |-> "background", timed |-> FALSE, deadline |-> 0]
    ELSE [parent |-> "background", timed |-> TRUE, deadline |-> ConnectTimeout]

Expired(ctx, now) == ctx.timed /\ now >= ctx.deadline

Newk6HTTPClientNoAuth(c) ==
    [transport |-> "k6", source |-> "",
     tls |-> TLSClientConfig(host), dial |-> DialContext(host).dial]

\* newk6HTTPClient: the client over the k6 transport, wrapped by
\* oauth2.NewClient(ctx, oauth2.StaticTokenSource(&token)) when
\* cfg.Auth.BearerToken != ""
Newk6HTTPClient(c) ==
    [transport |-> "k6", source |-> IF c.token # "" THEN c.token ELSE "",
     tls |-> TLSClientConfig(host), dial |-> DialContext(host).dial]

\* oauth2.Token.Type() of a token with no TokenType
TokenType == "Bearer"

\* the headers a request leaves the client with: the oauth2 transport sets
\* Authorization to Type() + " " + AccessToken, the plain client sets none
RoundTrip(c) ==
    IF c.source # "" THEN {<<"Authorization", TokenType \o " " \o c.source>>}
    ELSE {}

Streaming(k) == k \in {"sse", "streamable"}

\* os.Environ() of the process the extension runs in, as KEY, VALUE pairs
ParentEnv == {<<"PATH", "/bin">>, <<"HOME", "/root">>}

\* the cfg.Env maps a caller passes
EnvOverrides == {{}, {<<"KEY", "v">>}, {<<"PATH", "/opt">>}}

Keys(env) == {e[1] : e \in env}

\* cmd := exec.Command(cfg.Path, cfg.Args...) leaves cmd.Env nil;
\* for k, v := range cfg.Env { cmd.Env = append(cmd.Env, k + "=" + v) }
CmdEnv(env) == [nil |-> env = {}, entries |-> env]

\* os/exec: a Cmd whose Env is nil runs with the current process's environment,
\* any other with exactly the entries of Env
StartedWith(cmdEnv) == IF cmdEnv.nil THEN ParentEnv ELSE cmdEnv.entries

\* rt.ExportTo(c.Argument(0), &cfg) and its "invalid config" throw
Decode ==
    /\ cpc = "decode"
    /\ IF cfg.ok
       THEN /\ cpc' = "transport"
            /\ thrown' = thrown
       ELSE /\ cpc' = "thrown"
            /\ thrown' = [msg |-> "invalid config", cause |-> "export"]
    /\ UNCHANGED <<host, childEnv, kind, cfg, httpClient, connCtx, clock, attempts, launched, sessions,
                   connected, facades, wire>>

\* the transport value each constructor builds
MakeTransport ==
    /\ cpc = "transport"
    /\ IF Streaming(kind) /\ DialContext(host).faults
       THEN /\ cpc' = "panicked"
            /\ thrown' = NilDeref("newk6HTTPClient")
            /\ httpClient' = httpClient
       ELSE /\ cpc' = "connect"
            /\ thrown' = thrown
            /\ httpClient' = IF Streaming(kind) THEN Newk6HTTPClient(cfg) ELSE NoClient
    /\ UNCHANGED <<host, childEnv, kind, cfg, connCtx, clock, attempts, launched, sessions,
                   connected, facades, wire>>

\* connect: the context is chosen and client.Connect(ctx, transport, nil) called;
\* a command transport starts its subprocess
ConnectBegin ==
    /\ cpc = "connect"
    /\ connCtx' = ConnectContext(IsSSE(kind))
    /\ clock' = 0
    /\ attempts' = attempts + 1
    /\ launched' = IF kind = "stdio" /\ cfg.pathExists THEN launched + 1 ELSE launched
    /\ childEnv' = IF kind = "stdio" /\ cfg.pathExists
                   THEN StartedWith(CmdEnv(cfg.env)) ELSE childEnv
    /\ cpc' = "handshake"
    /\ UNCHANGED <<host, kind, cfg, httpClient, sessions, connected, facades, thrown, wire>>

\* a second passes while client.Connect has not returned
Tick ==
    /\ cpc = "handshake"
    /\ ~Expired(connCtx, clock)
    /\ clock < MaxClock
    /\ clock' = clock + 1
    /\ UNCHANGED <<host, childEnv, kind, cfg, cpc, httpClient, connCtx, attempts, launched, sessions,
                   connected, facades, thrown, wire>>

\* client.Connect returns a session; connect returns &Client{session: session}
HandshakeOK ==
    /\ cpc = "handshake"
    /\ ~Expired(connCtx, clock)
    /\ kind = "stdio" => cfg.pathExists
    /\ sessions' = sessions + 1
    /\ connected' = sessions + 1
    /\ cpc' = "wrap"
    /\ UNCHANGED <<host, childEnv, kind, cfg, httpClient, connCtx, clock, attempts, launched, facades,
                   thrown, wire>>

\* client.Connect returns an error before any deadline: common.Throw(rt,
\* fmt.Errorf("connection error: %w", err))
HandshakeFail ==
    /\ cpc = "handshake"
    /\ ~Expired(connCtx, clock)
    /\ thrown' = [msg |-> "connection error",
                  cause |-> IF kind = "stdio" /\ ~cfg.pathExists
                            THEN "start" ELSE "handshake"]
    /\ cpc' = "thrown"
    /\ UNCHANGED <<host, childEnv, kind, cfg, httpClient, connCtx, clock, attempts, launched, sessions,
                   connected, facades, wire>>

\* the connect context's deadline passes: client.Connect returns its error
Timeout ==
    /\ cpc = "handshake"
    /\ Expired(connCtx, clock)
    /\ thrown' = [msg |-> "connection error", cause |-> "deadline exceeded"]
    /\ cpc' = "thrown"
    /\ UNCHANGED <<host, childEnv, kind, cfg, httpClient, connCtx, clock, attempts, launched, sessions,
                   connected, facades, wire>>

\* metrics.NewK6Metrics(m.registry, m.vu.State().Samples, ...), which
\* dereferences State(), and then return rt.ToValue(&Client{ctx: m.vu.Context(),
\* session: client.session, metrics: mcpMetrics}).ToObject(rt)
Wrap ==
    /\ cpc = "wrap"
    /\ IF ~host.state
       THEN /\ cpc' = "panicked"
            /\ thrown' = NilDeref("constructor")
            /\ facades' = facades
       ELSE /\ cpc' = "done"
            /\ thrown' = thrown
            /\ facades' = Append(facades, [ctx |-> "vu", session |-> connected,
                                           metrics |-> "k6metrics"])
    /\ UNCHANGED <<host, childEnv, kind, cfg, httpClient, connCtx, clock, attempts, launched,
                   sessions, connected, wire>>

\* the streaming transport sends a request through its HTTPClient: during the
\* handshake, or for a call on the connected session
HTTPSend ==
    /\ Streaming(kind)
    /\ cpc \in {"handshake", "done"}
    /\ Len(wire) < MaxWire
    /\ wire' = Append(wire, [phase |-> IF cpc = "done" THEN "call" ELSE "handshake",
                             headers |-> RoundTrip(httpClient)])
    /\ UNCHANGED <<host, childEnv, kind, cfg, cpc, httpClient, connCtx, clock, attempts, launched,
                   sessions, connected, facades, thrown>>

Configs ==
    [ok : BOOLEAN, pathExists : BOOLEAN, token : {"", "t1", "t2"}, env : EnvOverrides]

\* a constructor has just been called
ConInit ==
    /\ host \in Hosts
    /\ kind \in {"stdio", "sse", "streamable"}
    /\ kind = "stdio" => (~host.tls /\ ~host.dialer)
    /\ cfg \in Configs
    /\ kind # "stdio" => cfg.env = {}
    /\ childEnv = {}
    /\ cpc = "decode"
    /\ httpClient = NoClient
    /\ connCtx = NoContext
    /\ clock = 0
    /\ attempts = 0
    /\ launched = 0
    /\ sessions = 0
    /\ connected = 0
    /\ facades = <<>>
    /\ thrown = NoThrow
    /\ wire = <<>>

\* a streaming client without token has been constructed
Built ==
    /\ host = [state |-> TRUE, tls |-> FALSE, dialer |-> FALSE]
    /\ kind = "streamable"
    /\ cfg = [ok |-> TRUE, pathExists |-> FALSE, token |-> "", env |-> {}]
    /\ childEnv = {}
    /\ cpc = "done"
    /\ httpClient = Newk6HTTPClient(cfg)
    /\ connCtx = ConnectContext(IsSSE(kind))
    /\ clock = 0
    /\ attempts = 1
    /\ launched = 0
    /\ sessions = 1
    /\ connected = 1
    /\ facades = <<[ctx |-> "vu", session |-> 1, metrics |-> "k6metrics"]>>
    /\ thrown = NoThrow
    /\ wire = <<>>

vars == <<opVars, conVars>>

\* the operations of a constructed Client
Init == OpInit /\ Built

Next ==
    \/ \E s \in Slots, o \in Ops, m \in {"nilmeta", "m1"}, c \in {NoCursor} \cup Cursors :
          Invoke(s, o, m, c) /\ UNCHANGED conVars
    \/ \E s \in Slots : IssueCall(s) /\ UNCHANGED conVars
    \/ \E s \in Waiting : \E r \in Replies(s, LastReq(s)) :
          ReplySingle(s, r) /\ UNCHANGED conVars
    \/ \E s \in Waiting : \E r \in Replies(s, LastReq(s)) :
          ReplyPage(s, r) /\ UNCHANGED conVars
    \/ \E s \in Slots : Push(s) /\ UNCHANGED conVars
    \/ \E s \in Slots : Return(s) /\ UNCHANGED conVars
    \/ Cancel /\ UNCHANGED conVars
    \/ Sever /\ UNCHANGED conVars

Spec == Init /\ [][Next]_vars

\* the operations of a Client against a server that need not end its cursor
\* chains; the method's own steps are always taken in the end
InitLive == threads = 1 /\ srv = Endless /\ Idle /\ Built

\* a step of a Client method itself
ClientStep ==
    \E s \in Slots : (IssueCall(s) \/ Push(s) \/ Return(s)) /\ UNCHANGED conVars

\* a session call returns, with whatever outcome
CallReturns ==
    \E s \in Waiting : \E r \in Replies(s, LastReq(s)) :
        (ReplySingle(s, r) \/ ReplyPage(s, r)) /\ UNCHANGED conVars

\* the session call of s returns whether or not the server answers: its
\* transport is gone, or its context is cancelled or past its deadline
Forced(s) ==
    \/ ~transportUp
    \/ LastReq(s).ctx = "facade" /\ ctxDone
    \/ HasDeadline(LastReq(s).ctx)

ForcedReturn ==
    \E s \in Waiting : \E r \in Replies(s, LastReq(s)) :
        Forced(s) /\ (ReplySingle(s, r) \/ ReplyPage(s, r)) /\ UNCHANGED conVars

\* every session call returns in the end
SpecLive == InitLive /\ [][Next]_vars /\ WF_vars(ClientStep) /\ WF_vars(CallReturns)

\* the server may stay silent: a session call is only sure to return when it is
\* forced to
SpecSilent == InitLive /\ [][Next]_vars /\ WF_vars(ClientStep) /\ WF_vars(ForcedReturn)

\* the operations of a Client whose earlier failures are remembered
InitFacade == threads = 1 /\ srv = Watched /\ Idle /\ Built

SpecFacade == InitFacade /\ [][Next]_vars

\* a server of lists of at most two pages, one entry in all, followed with full
\* history
TwoPages ==
    [capped |-> TRUE, pages |-> 2, items |-> 1, log |-> TRUE, remember |-> FALSE]

\* two caller threads on one Client
InitConc == threads = 2 /\ srv = TwoPages /\ Idle /\ Built

\* the methods the two threads call, each with default arguments
ConcOps == {"ListAllTools", "ListAllResources", "CallTool"}

NextConc ==
    \/ \E s \in Slots, o \in ConcOps :
          Invoke(s, o, "nilmeta", NoCursor) /\ UNCHANGED conVars
    \/ \E s \in Slots : IssueCall(s) /\ UNCHANGED conVars
    \/ \E s \in Waiting : \E r \in Replies(s, LastReq(s)) :
          ReplySingle(s, r) /\ UNCHANGED conVars
    \/ \E s \in Waiting : \E r \in Replies(s, LastReq(s)) :
          ReplyPage(s, r) /\ UNCHANGED conVars
    \/ \E s \in Slots : Push(s) /\ UNCHANGED conVars
    \/ \E s \in Slots : Return(s) /\ UNCHANGED conVars

SpecConc == InitConc /\ [][NextConc]_vars

\* the construction of a Client
InitConstruct == OpInit /\ ConInit

NextConstruct ==
    \/ Decode /\ UNCHANGED opVars
    \/ MakeTransport /\ UNCHANGED opVars
    \/ ConnectBegin /\ UNCHANGED opVars
    \/ Tick /\ UNCHANGED opVars
    \/ HandshakeOK /\ UNCHANGED opVars
    \/ HandshakeFail /\ UNCHANGED opVars
    \/ Timeout /\ UNCHANGED opVars
    \/ Wrap /\ UNCHANGED opVars
    \/ HTTPSend /\ UNCHANGED opVars
    \/ Cancel /\ UNCHANGED conVars

SpecConstruct == InitConstruct /\ [][NextConstruct]_vars

\* ---------------------------------------------------------------- claims

Returned(s) == pc[s] = "returned"
Running(s) == pc[s] \in {"call", "wait", "push"}

RECURSIVE ConcatPages(_)
ConcatPages(rs) ==
    IF rs = <<>> THEN <<>> ELSE Head(rs).items \o ConcatPages(Tail(rs))

IsItem(x) == x # NULL
AllOk(rs) == \A k \in DOMAIN rs : rs[k].err = NoErr

\* the eight operations claim C1 lists
ObservedOps ==
    {"CallTool", "ListResources", "ReadResource", "ListPrompts", "GetPrompt",
     "ListAllTools", "ListAllResources", "ListAllPrompts"}

\* C1: every invocation of CallTool, ListResources, ReadResource, ListPrompts,
\* GetPrompt or a ListAll* operation has pushed exactly one observation when it
\* returns, tagged with the operation's own name and failed exactly when the last
\* session call failed, and has pushed none while its requests are still being
\* issued (no observation per page), whatever the number of pages and the outcome.
OneObservationPerCall ==
    \A s \in Slots :
        op[s] \in ObservedOps =>
            /\ Running(s) => obs[s] = <<>>
            /\ Returned(s) =>
                  /\ Len(obs[s]) = 1
                  /\ obs[s][1].name = op[s]
                  /\ obs[s][1].failed = (resps[s][Len(resps[s])].err # NoErr)

\* C1 witness: a ListAll* call that failed after a successful first page has
\* returned with its single observation.
FailedMidPaginationObserved ==
    \E s \in Slots :
        /\ Returned(s) /\ op[s] \in ListAllOps
        /\ Len(resps[s]) >= 2 /\ resps[s][1].err = NoErr
        /\ resps[s][Len(resps[s])].err # NoErr
        /\ Len(obs[s]) = 1 /\ obs[s][1].failed

\* C2: in a ListAll* call the page requests are issued one after another, the
\* first without a cursor and request k+1 with exactly the non-empty nextCursor of
\* page k; once the call has returned from a chain of n successful pages it has
\* issued exactly n requests, none after the page with the empty nextCursor, and
\* (for pages without nil entries) returns page 1 ++ ... ++ page n unchanged.
PagesFollowCursorChain ==
    \A s \in Slots :
        op[s] \in ListAllOps =>
            /\ Len(resps[s]) <= Len(reqs[s])
            /\ Len(reqs[s]) <= Len(resps[s]) + 1
            /\ Len(reqs[s]) >= 1 => reqs[s][1].cursor = NoCursor
            /\ \A k \in 2..Len(reqs[s]) :
                  /\ reqs[s][k].cursor # NoCursor
                  /\ reqs[s][k].cursor = resps[s][k - 1].next
            /\ (Returned(s) /\ AllOk(resps[s])) =>
                  /\ Len(reqs[s]) = Len(resps[s])
                  /\ Len(resps[s]) >= 1
                  /\ resps[s][Len(resps[s])].next = NoCursor
                  /\ \A k \in 1..(Len(resps[s]) - 1) : resps[s][k].next # NoCursor
                  /\ ret[s].present
                  /\ (\A i \in DOMAIN ConcatPages(resps[s]) :
                          IsItem(ConcatPages(resps[s])[i]))
                        => ret[s].items = ConcatPages(resps[s])

\* C2 witness: a three-page chain with cursors c1 then c2 has been aggregated
\* into two different items in server order.
ThreePageChainAggregated ==
    \E s \in Slots :
        /\ Returned(s) /\ op[s] \in ListAllOps /\ AllOk(resps[s])
        /\ Len(resps[s]) = 3
        /\ reqs[s][2].cursor = "c1" /\ reqs[s][3].cursor = "c2"
        /\ resps[s][1].items = <<"b">> /\ resps[s][3].items = <<"a">>
        /\ ret[s].items = <<"b", "a">>

\* C3: when a page fetch of a ListAll* call fails, the failed fetch is the last
\* request of the call, and the call returns an absent result with no items and
\* an error that wraps that page's failure.
FailedPageDiscardsAll ==
    \A s \in Slots :
        (op[s] \in ListAllOps /\ ~AllOk(resps[s])) =>
            /\ resps[s][Len(resps[s])].err # NoErr
            /\ AllOk(SubSeq(resps[s], 1, Len(resps[s]) - 1))
            /\ Len(reqs[s]) = Len(resps[s])
            /\ Returned(s) =>
                  /\ ~ret[s].present
                  /\ ret[s].items = <<>>
                  /\ ret[s].err.wrap # ""
                  /\ ret[s].err.cause = resps[s][Len(resps[s])].err

\* C3 witness: a ListAll* call whose first page carried an item and whose
\* second page failed has returned.
SecondPageFailureReturned ==
    \E s \in Slots :
        /\ Returned(s) /\ op[s] \in ListAllOps
        /\ Len(resps[s]) = 2
        /\ resps[s][1].items = <<"a">>
        /\ resps[s][2].err = ErrRemote
        /\ ~ret[s].present

\* C4: a successful ListAll* call returns exactly the non-nil entries of its
\* pages, in order; the length of its result is the number of non-nil entries.
NullEntriesSkipped ==
    \A s \in Slots :
        (op[s] \in ListAllOps /\ Returned(s) /\ AllOk(resps[s])) =>
            /\ ret[s].items = SelectSeq(ConcatPages(resps[s]), IsItem)
            /\ Len(ret[s].items) =
                  Cardinality({i \in DOMAIN ConcatPages(resps[s]) :
                                  ConcatPages(resps[s])[i] # NULL})

\* C4 witness: a page with a nil entry before an item has been aggregated to
\* that one item.
PageWithNilAggregated ==
    \E s \in Slots :
        /\ Returned(s) /\ op[s] \in ListAllOps
        /\ Len(resps[s]) = 1
        /\ resps[s][1].items = <<NULL, "b">>
        /\ ret[s].items = <<"b">>

\* C5: once the facade's context has been cancelled while a ListAll* call that
\* has begun fetching pages is in flight, that call issues no further page
\* request and returns an error.
CancelStopsAggregation ==
    [][\A s \in Slots :
          (op[s] \in ListAllOps /\ cancelledInFlight[s] /\ Len(reqs[s]) >= 1) =>
              /\ Len(reqs'[s]) <= Len(reqs[s])
              /\ pc'[s] = "returned" => ret'[s].err # NoError]_vars

\* C6: CallTool hands the facade's own context to the session, so a CallTool
\* whose session call returns after that context was cancelled (in flight at
\* the cancellation or issued after it) gets an error, and returns that error
\* with no result.
CallToolFailsOnceCancelled ==
    [][\A s \in Slots :
          op[s] = "CallTool" =>
              /\ (ctxDone /\ pc[s] = "wait" /\ pc'[s] # "wait") => err'[s] # NoErr
              /\ (pc'[s] = "returned" /\ err[s] # NoErr) =>
                    /\ ~ret'[s].present
                    /\ ret'[s].err.cause = err[s]]_vars

\* C6 witness: a CallTool that was in flight when the context was cancelled has
\* returned the cancellation error.
CallToolCancelledInFlight ==
    \E s \in Slots :
        /\ Returned(s) /\ op[s] = "CallTool"
        /\ cancelledInFlight[s]
        /\ transportUp
        /\ ret[s].err.cause = ErrCanceled

\* C7: Ping returns no error value, only a boolean: true exactly when its one
\* liveness call returned no error, false for every failure.
PingOnlyBoolean ==
    \A s \in Slots :
        (op[s] = "Ping" /\ Returned(s)) =>
            /\ ret[s].err = NoError
            /\ Len(reqs[s]) = 1 /\ Len(resps[s]) = 1
            /\ ret[s].ok = (resps[s][1].err = NoErr)

\* C7 witness: a Ping against a severed transport has returned false.
PingOnSeveredTransport ==
    \E s \in Slots :
        /\ Returned(s) /\ op[s] = "Ping"
        /\ ~transportUp
        /\ resps[s][1].err = ErrClosed
        /\ ret[s].ok = FALSE

\* C8: on a streaming client built with a non-empty bearer token every request
\* sent, in the handshake and after it, carries exactly the header
\* Authorization: Bearer <token>; with an empty token the client is the unwrapped
\* one and no request carries an Authorization header.
BearerOnEveryRequest ==
    /\ \A i \in DOMAIN wire :
          IF cfg.token # ""
          THEN wire[i].headers = {<<"Authorization", "Bearer " \o cfg.token>>}
          ELSE \A h \in wire[i].headers : h[1] # "Authorization"
    /\ (Streaming(kind) /\ cpc \in {"connect", "handshake", "wrap", "done"}
          /\ cfg.token = "") => httpClient.source = ""

\* C8 witness: a client with token t2 has sent a handshake request and a later
\* call, both with Authorization: Bearer t2.
BearerSentBeforeAndAfterConnect ==
    /\ cpc = "done" /\ cfg.token = "t2"
    /\ Len(wire) = 2
    /\ wire[1].phase = "handshake" /\ wire[2].phase = "call"
    /\ wire[1].headers = {<<"Authorization", "Bearer t2">>}
    /\ wire[2].headers = {<<"Authorization", "Bearer t2">>}

\* a constructor call is over: it has returned, thrown or panicked
Ended == cpc \in {"done", "thrown", "panicked"}

\* C9 as claimed: a construction calls client.Connect at most once and, once it
\* is over with a config that decoded, exactly once; a failed attempt throws a
\* connection error and returns no facade (always so for a subprocess path that
\* does not exist); a successful one returns exactly one facade, which holds the
\* one session that attempt produced.
OneConnectAttempt ==
    /\ attempts <= 1 /\ launched <= 1 /\ sessions <= 1 /\ Len(facades) <= 1
    /\ (cpc = "wrap" \/ (Ended /\ thrown.msg # "invalid config")) => attempts = 1
    /\ cpc = "thrown" =>
          /\ facades = <<>> /\ sessions = 0
          /\ thrown.msg \in {"invalid config", "connection error"}
    /\ (Ended /\ sessions = 1) =>
          /\ cpc = "done"
          /\ Len(facades) = 1
          /\ facades[1].session = sessions
          /\ thrown = NoThrow
    /\ cpc = "done" => sessions = 1
    /\ cpc # "done" => facades = <<>>
    /\ (kind = "stdio" /\ cfg.ok /\ cfg.pathExists
          /\ cpc \in {"handshake", "wrap", "done", "thrown"}) => launched = 1
    /\ (kind = "stdio" /\ ~cfg.pathExists) =>
          /\ launched = 0
          /\ cpc \notin {"wrap", "done"}

\* C10: the subprocess and bidirectional-streaming constructors connect under a
\* context derived from the background context with a 30 second deadline: the
\* attempt is never followed past 30 seconds, and one still pending then ends in
\* a connection error with no facade; the one-way streaming constructor connects
\* under the bare background context and is never timed out.
ConnectTimeoutPolicy ==
    attempts >= 1 =>
        /\ connCtx.parent = "background"
        /\ kind \in {"stdio", "streamable"} =>
              /\ connCtx.timed /\ connCtx.deadline = 30
              /\ clock <= 30
              /\ (clock = 30 /\ cpc # "handshake") =>
                    /\ cpc = "thrown"
                    /\ thrown.msg = "connection error"
                    /\ facades = <<>>
        /\ kind = "sse" =>
              /\ ~connCtx.timed
              /\ thrown.cause # "deadline exceeded"

\* C10 witness: a bidirectional-streaming connect still pending after 30
\* seconds has thrown a connection error, with the caller's context never
\* cancelled.
StreamableConnectTimedOut ==
    /\ kind = "streamable" /\ clock = 30 /\ ~ctxDone
    /\ cpc = "thrown" /\ thrown.cause = "deadline exceeded"
    /\ facades = <<>>

InLoop(s) == op[s] \in ListAllOps /\ pc[s] \in {"call", "wait"}
Continuing(s) == op[s] \in ListAllOps /\ pc[s] = "call" /\ cursor[s] # NoCursor

EveryOperationObserved ==
    \A s \in Slots :
        (op[s] \in Ops /\ Returned(s)) =>
            /\ Len(obs[s]) = 1
            /\ obs[s][1].name = op[s]
            /\ obs[s][1].failed = (err[s] # NoErr)

\* C14: once the facade's context is cancelled, the session call of every
\* post-connect call operation (ListTools, CallTool, ListResources, ReadResource,
\* ListPrompts, GetPrompt), in flight or issued afterwards, returns an error.
CancelFailsEveryCall ==
    [][\A s \in Slots :
          (op[s] \in PageOps \cup PlainOps /\ ctxDone /\ pc[s] = "wait"
              /\ pc'[s] # "wait") => err'[s] # NoErr]_vars

\* C15: a Ping whose liveness request is outstanding returns in the end, even
\* when the session never answers it.
PingReturns ==
    \A s \in Slots : (op[s] = "Ping" /\ pc[s] = "wait") ~> Returned(s)

\* C16: every page request of a ListAll* call carries the same metadata, the
\* value fixed before the loop (the caller's, or the empty one substituted for
\* none); successive requests differ in their cursor only.
MetaConstantAcrossPages ==
    \A s \in Slots :
        op[s] \in ListAllOps =>
            /\ meta[s] \in {"emptymeta", "m1"}
            /\ \A k \in DOMAIN reqs[s] :
                  /\ reqs[s][k].meta = meta[s]
                  /\ reqs[s][k].method = reqs[s][1].method
                  /\ reqs[s][k].ctx = reqs[s][1].ctx

\* C16 witness: a call made without metadata has sent three page requests with
\* the empty metadata and three different cursors.
ThreeRequestsSameMeta ==
    \E s \in Slots :
        /\ op[s] \in ListAllOps /\ Len(reqs[s]) = 3
        /\ \A k \in 1..3 : reqs[s][k].meta = "emptymeta"
        /\ reqs[s][1].cursor = NoCursor
        /\ reqs[s][2].cursor = "c1" /\ reqs[s][3].cursor = "c2"

\* C18: the observation of CallTool, ListResources, ReadResource, ListPrompts,
\* GetPrompt and the ListAll* operations says failed exactly when the caller
\* gets an error (and so no result); it exists only once every session call of
\* the invocation has returned, and is there when the operation has returned.
ObservationAgreesWithReturn ==
    \A s \in Slots :
        op[s] \in ObservedOps =>
            /\ obs[s] # <<>> =>
                  /\ Returned(s)
                  /\ Len(reqs[s]) = Len(resps[s])
            /\ Returned(s) =>
                  /\ obs[s] # <<>>
                  /\ obs[s][1].failed = (ret[s].err # NoError)
                  /\ obs[s][1].failed = ~ret[s].present

\* C18 witness: a ListAll* call that failed on its second page has returned an
\* error and its observation says failed.
FailureObservedAndReturned ==
    \E s \in Slots :
        /\ Returned(s) /\ op[s] \in ListAllOps
        /\ Len(resps[s]) = 2
        /\ obs[s] = <<[name |-> op[s], failed |-> TRUE]>>
        /\ ret[s].err.cause = ErrRemote

\* C17: every single-call operation issues exactly one session call and returns
\* that call's result and error as they are (Ping: as its boolean); no operation
\* changes the facade, whose context, session and metrics sink stay the ones it
\* was built with; and after an earlier failure a session call that is not cut
\* off by a severed transport or a cancelled context can still be answered
\* successfully.
NoRetryNoInvalidation ==
    /\ facades = <<[ctx |-> "vu", session |-> 1, metrics |-> "k6metrics"]>>
    /\ sessions = 1 /\ connected = 1
    /\ \A s \in Slots :
          op[s] \in SingleOps =>
              /\ Len(reqs[s]) <= 1
              /\ Returned(s) =>
                    /\ Len(reqs[s]) = 1 /\ Len(resps[s]) = 1
                    /\ IF op[s] = "Ping"
                       THEN ret[s].ok = (resps[s][1].err = NoErr)
                       ELSE /\ ret[s].present = (resps[s][1].err = NoErr)
                            /\ ret[s].items = resps[s][1].items
                            /\ ret[s].next = resps[s][1].next
                            /\ ret[s].err = [wrap |-> "", cause |-> resps[s][1].err]
              /\ (failedBefore /\ pc[s] = "wait" /\ transportUp
                    /\ ~(LastReq(s).ctx = "facade" /\ ctxDone)) =>
                    \E r \in Replies(s, LastReq(s)) : r.err = NoErr

\* C17 witness: after an earlier operation failed, a CallTool on the same
\* facade has returned a result and no error.
SucceededAfterFailure ==
    \E s \in Slots :
        /\ failedBefore
        /\ Returned(s) /\ op[s] = "CallTool"
        /\ ret[s].present /\ ret[s].err = NoError
        /\ facades = <<[ctx |-> "vu", session |-> 1, metrics |-> "k6metrics"]>>

\* C19: with two threads calling methods of one Client in any interleaving, each
\* ListAll* call's accumulator holds exactly the non-nil entries of the pages
\* answered to its own requests, each of its requests after the first carries
\* the nextCursor of its own previous page, what it returns is its own
\* accumulator, and every call of a metered operation has pushed exactly one
\* observation, under its own name, when it returns.
CallsDoNotInterfere ==
    \A s \in Slots :
        /\ (op[s] \in ListAllOps /\ AllOk(resps[s])) =>
              acc[s] = AppendNonNil(<<>>, ConcatPages(resps[s]))
        /\ op[s] \in ListAllOps =>
              /\ Len(reqs[s]) >= 1 => reqs[s][1].cursor = NoCursor
              /\ \A k \in 2..Len(reqs[s]) : reqs[s][k].cursor = resps[s][k - 1].next
              /\ pc[s] = "call" /\ Len(resps[s]) >= 1 =>
                    cursor[s] = resps[s][Len(resps[s])].next
              /\ (Returned(s) /\ ret[s].present) =>
                    ret[s].items = AppendNonNil(<<>>, ConcatPages(resps[s]))
        /\ (Returned(s) /\ Metered(op[s])) =>
              /\ Len(obs[s]) = 1
              /\ obs[s][1].name = op[s]
        /\ (Returned(s) /\ op[s] \in {"CallTool", "ReadResource", "GetPrompt"}
              /\ ret[s].present) =>
              ret[s].items = resps[s][1].items

\* C19 witness: two ListAll* calls are in the middle of their aggregations at
\* the same time, each waiting for its second page, with different entries
\* accumulated and different cursors requested.
TwoAggregationsInterleaved ==
    /\ \A s \in Slots : pc[s] = "wait" /\ op[s] \in ListAllOps /\ Len(reqs[s]) = 2
    /\ acc[1] # <<>> /\ acc[2] # <<>> /\ acc[1] # acc[2]
    /\ reqs[1][2].cursor # reqs[2][2].cursor

\* C13 as claimed: the subprocess is started with every caller-supplied entry
\* and with every entry of the embedding process's environment whose key is not
\* overridden, whether the override map is empty or not.
EnvOverridesAdded ==
    launched >= 1 =>
        /\ cfg.env \subseteq childEnv
        /\ \A e \in ParentEnv : e[1] \notin Keys(cfg.env) => e \in childEnv

\* C20 as claimed: whatever the host supplies, the construction of a streaming
\* client's HTTP client does not fault, and the client it builds carries the
\* cloned TLS settings pinned to http/1.1 exactly when the host has a TLS
\* configuration and the host's dial function exactly when the host has a
\* dialer; without host state it is the default client.
HostSettingsTolerated ==
    Streaming(kind) =>
        /\ thrown # NilDeref("newk6HTTPClient")
        /\ cpc \in {"connect", "handshake", "wrap", "done"} =>
              /\ httpClient.tls = (IF host.tls THEN "clone http/1.1" ELSE "none")
              /\ httpClient.dial = (IF host.dialer THEN "k6" ELSE "default")

====
